---- MODULE Spec2Model ----
(***************************************************************************)
(* proxy-to-grafana: an identity-aware reverse proxy on a tailnet.        *)
(*                                                                         *)
(* The module models cmd/proxy-to-grafana/proxy-to-grafana.go:            *)
(*   - main: flag validation, listener bootstrap (plaintext or TLS mode), *)
(*     the readiness goroutine of TLS mode, the serve loops;              *)
(*   - the proxy Director (generic director, then modifyRequest);         *)
(*   - getTailscaleUser, the classification of a WhoIs response.          *)
(*   - the port-80 redirect handler of TLS mode;                          *)
(*   - logknob.LogKnob (NewLogKnob, Set, UpdateFromNetMap, Do), which the  *)
(*     proxy does not use and which runs beside it.                        *)
(* Strings that the code inspects (hostname, backend address, URL paths)  *)
(* are sequences of tokens, so that Contains, url.Parse and the path join *)
(* of the generic director are computed, not assumed.                     *)
(***************************************************************************)
EXTENDS Integers, Sequences, FiniteSets, TLC

VARIABLES
    hostname,      \* *hostname flag (token sequence)
    backendAddr,   \* *backendAddr flag (token sequence)
    useHTTPS,      \* *useHTTPS flag
    mainPc,        \* position of main()
    err,           \* main's err variable: TRUE when the last Listen failed
    exited,        \* the process has exited (log.Fatal)
    ln443,         \* the ":443" listener: "closed" or "open"
    l80,           \* the ":80" listener: "closed" or "open"
    serve443,      \* handler served on :443: "none" or "proxy"
    serve80,       \* handler served on :80: "none", "proxy" or "redirect"
    bootPc,        \* position of the readiness goroutine ("none": not started)
    i,             \* loop variable of the readiness loop
    st,            \* last BackendState returned by tailscale.Status
    polls,         \* number of tailscale.Status calls made so far
    firstRunning,  \* index of the poll that reported "Running" (0: none yet)
    name,          \* result of tailscale.ExpandSNIName
    reqPc,         \* position of the proxy worker handling a request
    in,            \* the request as received from the client
    out,           \* the outbound request being rewritten / forwarded
    who,           \* the WhoIs response obtained for this request
    whoisCalls,    \* number of WhoIs calls made for this request
    userErr,       \* the error returned by getTailscaleUser for this request
    prevWho,       \* the WhoIs response obtained for the previous login request
    resp,          \* the last response of the port-80 redirect handler
    knobPc,        \* LogKnob: "none", "made" or "panicked" (NewLogKnob)
    capName,       \* LogKnob.capName
    cap,           \* LogKnob.cap (atomic.Bool)
    env,           \* value returned by LogKnob.env()
    manual,        \* LogKnob.manual (atomic.Bool)
    doPc,          \* position of a Do call inside shouldLog
    didLog,        \* whether the last completed Do called log
    nm             \* self capabilities of the last net map given to the knob

cfgVars  == <<hostname, backendAddr, useHTTPS>>
mainVars == <<mainPc, err, ln443, serve443>>
bootVars == <<bootPc, i, st, polls, firstRunning, name>>
reqVars  == <<reqPc, in, out, who, whoisCalls, userErr, prevWho>>
knobVars == <<knobPc, capName, cap, env, manual, doPc, didLog, nm>>
vars == <<hostname, backendAddr, useHTTPS, mainPc, err, exited, ln443, l80,
          serve443, serve80, bootPc, i, st, polls, firstRunning, name,
          reqPc, in, out, who, whoisCalls, userErr, prevWho, resp,
          knobPc, capName, cap, env, manual, doPc, didLog, nm>>

----------------------------------------------------------------------------
(* Bounds and program constants *)

\* most values a client sends for one header
MaxVals == 2

\* the readiness loop: for i := 0; i < 60; i++
MaxPolls == 60

----------------------------------------------------------------------------
(* Configuration *)

Hostnames == { <<>>, <<"svc">>, <<"svc", ".", "net">> }

BackendAddrs == { <<>>, <<"h:3000">>, <<"h:3000", "/", "g">>, <<"%">> }

\* strings.Contains(s, tok)
Contains(s, tok) == \E k \in 1..Len(s) : s[k] = tok

\* the index of the first "/" of s, Len(s)+1 when there is none
RECURSIVE FirstSlash(_, _)
FirstSlash(s, k) ==
    IF k > Len(s) THEN k
    ELSE IF s[k] = "/" THEN k ELSE FirstSlash(s, k + 1)

\* url.Parse(fmt.Sprintf("http://%s", addr)): an invalid escape is an error;
\* otherwise the host is what precedes the first "/", the path is the rest.
ParseBackend(addr) ==
    IF Contains(addr, "%")
    THEN [ok |-> FALSE, Host |-> <<>>, Path |-> <<>>]
    ELSE LET k == FirstSlash(addr, 1)
         IN [ok |-> TRUE,
             Host |-> SubSeq(addr, 1, k - 1),
             Path |-> SubSeq(addr, k, Len(addr))]

\* the checks of main without the test for a "." in the hostname
ConfigValid_NoDotCheck ==
    /\ hostname # <<>>
    /\ backendAddr # <<>>
    /\ ParseBackend(backendAddr).ok

\* the checks of main before any listener is opened
ConfigValid ==
    /\ hostname # <<>>
    /\ ~Contains(hostname, ".")
    /\ backendAddr # <<>>
    /\ ParseBackend(backendAddr).ok

----------------------------------------------------------------------------
(* Requests and headers *)

UserHeader == "X-Webauth-User"
NameHeader == "X-Webauth-Name"
AgentHeader == "User-Agent"

TrustedHeaders == {UserHeader, NameHeader}
HeaderNames == {UserHeader, NameHeader, AgentHeader}

LoginPath == <<"/", "login">>

\* request paths a client can send (the empty path is the absolute-form
\* request target without a path)
ClientPaths == { <<"/", "login">>, <<"/", "dashboard">>, <<>> }

\* values a client can put in a trusted header
ClientValues == {"a@b.com", "mallory"}

\* all sequences over S of length at most n
RECURSIVE SeqsUpTo(_, _)
SeqsUpTo(S, n) ==
    IF n = 0 THEN { <<>> }
    ELSE LET shorter == SeqsUpTo(S, n - 1)
         IN shorter \cup { Append(s, x) : s \in shorter, x \in S }

\* header maps a client can send: an absent header is the empty sequence
ClientHeaders ==
    { [h \in HeaderNames |->
         IF h = UserHeader THEN u ELSE IF h = NameHeader THEN n ELSE a] :
      u \in SeqsUpTo(ClientValues, MaxVals),
      n \in SeqsUpTo(ClientValues, MaxVals),
      a \in { <<>>, <<"curl">> } }

NoHeaders == [h \in HeaderNames |-> <<>>]
NoRequest == [Path |-> <<>>, Header |-> NoHeaders]

\* http.Header.Add in place of Set: the value is appended to those present
HeaderSet_Add(hdr, key, v) == [hdr EXCEPT ![key] = Append(@, v)]

\* a Set that puts the value in front of those already present
HeaderSet_Prepend(hdr, key, v) == [hdr EXCEPT ![key] = <<v>> \o @]

\* http.Header.Set: replaces every value of the key by the single value v
HeaderSet(hdr, key, v) == [hdr EXCEPT ![key] = <<v>>]

\* httputil singleJoiningSlash(a, b)
singleJoiningSlash(a, b) ==
    LET aslash == Len(a) > 0 /\ a[Len(a)] = "/"
        bslash == Len(b) > 0 /\ b[1] = "/"
    IN IF aslash /\ bslash THEN a \o Tail(b)
       ELSE IF ~aslash /\ ~bslash THEN a \o <<"/">> \o b
       ELSE a \o b

\* the Director of httputil.NewSingleHostReverseProxy(url): joins the target
\* path and the request path, and sets an empty User-Agent when none is sent
originalDirector(target, req) ==
    [Path |-> singleJoiningSlash(target.Path, req.Path),
     Header |-> IF req.Header[AgentHeader] = <<>>
                THEN HeaderSet(req.Header, AgentHeader, "")
                ELSE req.Header]

----------------------------------------------------------------------------
(* Identity resolution *)

NilProfile == [present |-> FALSE, LoginName |-> "", DisplayName |-> ""]

Profiles ==
    { [present |-> TRUE, LoginName |-> "a@b.com", DisplayName |-> "Ann"],
      [present |-> TRUE, LoginName |-> "bob@b.com", DisplayName |-> "Bob"],
      [present |-> TRUE, LoginName |-> "", DisplayName |-> "Ghost"] }

TagLists == { <<>>, <<"tag:server">> }

\* what tailscale.WhoIs can return for a peer address
WhoIsResults ==
    { [err |-> TRUE, Tags |-> <<>>, UserProfile |-> NilProfile] }
    \cup { [err |-> FALSE, Tags |-> t, UserProfile |-> p] :
           t \in TagLists, p \in Profiles \cup {NilProfile} }

NoWhoIs == [err |-> FALSE, Tags |-> <<>>, UserProfile |-> NilProfile]

\* getTailscaleUser without the test of whois.Node.Tags
getTailscaleUser_NoTagCheck(whois) ==
    IF whois.err
    THEN [user |-> NilProfile, err |-> "failed to identify remote host"]
    ELSE IF ~whois.UserProfile.present \/ whois.UserProfile.LoginName = ""
    THEN [user |-> NilProfile, err |-> "failed to identify remote user"]
    ELSE [user |-> whois.UserProfile, err |-> "nil"]

\* getTailscaleUser without the test of an empty LoginName
getTailscaleUser_NoLoginCheck(whois) ==
    IF whois.err
    THEN [user |-> NilProfile, err |-> "failed to identify remote host"]
    ELSE IF Len(whois.Tags) # 0
    THEN [user |-> NilProfile, err |-> "tagged nodes are not users"]
    ELSE IF ~whois.UserProfile.present
    THEN [user |-> NilProfile, err |-> "failed to identify remote user"]
    ELSE [user |-> whois.UserProfile, err |-> "nil"]

\* getTailscaleUser testing the profile before the tags
getTailscaleUser_ProfileFirst(whois) ==
    IF whois.err
    THEN [user |-> NilProfile, err |-> "failed to identify remote host"]
    ELSE IF ~whois.UserProfile.present \/ whois.UserProfile.LoginName = ""
    THEN [user |-> NilProfile, err |-> "failed to identify remote user"]
    ELSE IF Len(whois.Tags) # 0
    THEN [user |-> NilProfile, err |-> "tagged nodes are not users"]
    ELSE [user |-> whois.UserProfile, err |-> "nil"]

\* getTailscaleUser, applied to the response of tailscale.WhoIs
getTailscaleUser(whois) ==
    IF whois.err
    THEN [user |-> NilProfile, err |-> "failed to identify remote host"]
    ELSE IF Len(whois.Tags) # 0
    THEN [user |-> NilProfile, err |-> "tagged nodes are not users"]
    ELSE IF ~whois.UserProfile.present \/ whois.UserProfile.LoginName = ""
    THEN [user |-> NilProfile, err |-> "failed to identify remote user"]
    ELSE [user |-> whois.UserProfile, err |-> "nil"]

\* a suffix test in place of the equality with "/login"
IsLoginPath_Suffix(path) == Len(path) > 0 /\ path[Len(path)] = "login"

\* the test at the head of modifyRequest
IsLoginPath(path) == path = LoginPath

----------------------------------------------------------------------------
(* Overlay network *)

\* BackendState values other than "Running"
NotRunningStates == {"NoState", "Starting"}
BackendStates == NotRunningStates \cup {"Running"}

\* tailscale.ExpandSNIName(hostname) when it succeeds
ExpandSNIName(h) == h \o <<".", "tailnet", ".", "ts", ".", "net">>

\* http.StatusMovedPermanently
StatusMovedPermanently == 301

\* http.Redirect(w, r, url, code): a url with a scheme is the Location as it
\* is; a relative url is resolved against the request path
httpRedirect(path, url, code) ==
    [Path |-> path,
     Status |-> code,
     Location |-> IF Len(url) > 0 /\ url[1] \in {"http://", "https://"}
                  THEN url
                  ELSE IF Len(url) > 0 /\ url[1] = "/" THEN url
                  ELSE path \o url]

\* the redirect handler carrying the request path into the target
redirectHandler_WithPath(path, sni) ==
    httpRedirect(path, <<"https://">> \o sni \o path, StatusMovedPermanently)

\* line 107: the handler served on port 80 in TLS mode
redirectHandler(path, sni) ==
    httpRedirect(path, <<"https://">> \o sni, StatusMovedPermanently)

\* no redirect response has been written yet
NoResponse == [Path |-> <<>>, Status |-> 0, Location |-> <<>>]

----------------------------------------------------------------------------
Init ==
    /\ hostname \in Hostnames
    /\ backendAddr \in BackendAddrs
    /\ useHTTPS \in BOOLEAN
    /\ mainPc = "flags"
    /\ err = FALSE
    /\ exited = FALSE
    /\ ln443 = "closed"
    /\ l80 = "closed"
    /\ serve443 = "none"
    /\ serve80 = "none"
    /\ bootPc = "none"
    /\ i = 0
    /\ st = "NoState"
    /\ polls = 0
    /\ firstRunning = 0
    /\ name = <<>>
    /\ reqPc = "idle"
    /\ in = NoRequest
    /\ out = NoRequest
    /\ who = NoWhoIs
    /\ whoisCalls = 0
    /\ userErr = "none"
    /\ prevWho = NoWhoIs
    /\ resp = NoResponse
    /\ knobPc = "none"
    /\ capName = ""
    /\ cap = FALSE
    /\ env = FALSE
    /\ manual = FALSE
    /\ doPc = "idle"
    /\ didLog = FALSE
    /\ nm = <<>>

----------------------------------------------------------------------------
(* main *)

\* lines 53-75: flag checks, url.Parse, construction of the proxy
MainValidate ==
    /\ ~exited
    /\ mainPc = "flags"
    /\ IF ConfigValid
       THEN mainPc' = "listen" /\ exited' = FALSE
       ELSE mainPc' = "flags" /\ exited' = TRUE
    /\ UNCHANGED <<cfgVars, knobVars, resp, err, ln443, l80, serve443, serve80, bootVars,
                   reqVars>>

\* MainListen starting the readiness goroutine in both modes
MainListen_AlwaysBoot ==
    /\ ~exited
    /\ mainPc = "listen"
    /\ \E ok \in BOOLEAN :
         /\ err' = ~ok
         /\ IF useHTTPS
            THEN /\ ln443' = IF ok THEN "open" ELSE "closed"
                 /\ l80' = l80
            ELSE /\ l80' = IF ok THEN "open" ELSE "closed"
                 /\ ln443' = ln443
    /\ bootPc' = "poll"
    /\ i' = 0
    /\ mainPc' = "checkErr"
    /\ UNCHANGED <<cfgVars, knobVars, resp, exited, serve443, serve80, st, polls,
                   firstRunning, name, reqVars>>

\* lines 78-114: ts.Listen on ":443" (TLS mode, which also starts the
\* readiness goroutine) or on ":80" (plaintext mode); the Listen may fail
MainListen ==
    /\ ~exited
    /\ mainPc = "listen"
    /\ \E ok \in BOOLEAN :
         /\ err' = ~ok
         /\ IF useHTTPS
            THEN /\ ln443' = IF ok THEN "open" ELSE "closed"
                 /\ l80' = l80
                 /\ bootPc' = "poll"
                 /\ i' = 0
            ELSE /\ l80' = IF ok THEN "open" ELSE "closed"
                 /\ ln443' = ln443
                 /\ bootPc' = bootPc
                 /\ i' = i
    /\ mainPc' = "checkErr"
    /\ UNCHANGED <<cfgVars, knobVars, resp, exited, serve443, serve80, st, polls,
                   firstRunning, name, reqVars>>

\* MainServe waiting for the overlay network to report "Running"
MainServe_AfterReady ==
    /\ ~exited
    /\ mainPc = "checkErr"
    /\ (useHTTPS => st = "Running")
    /\ IF err
       THEN /\ exited' = TRUE
            /\ UNCHANGED <<mainPc, serve443, serve80>>
       ELSE /\ exited' = FALSE
            /\ mainPc' = "serving"
            /\ IF useHTTPS
               THEN serve443' = "proxy" /\ serve80' = serve80
               ELSE serve80' = "proxy" /\ serve443' = serve443
    /\ UNCHANGED <<cfgVars, knobVars, resp, err, ln443, l80, bootVars, reqVars>>

\* lines 115-119: a failed Listen is fatal; otherwise http.Serve(ln, proxy)
MainServe ==
    /\ ~exited
    /\ mainPc = "checkErr"
    /\ IF err
       THEN /\ exited' = TRUE
            /\ UNCHANGED <<mainPc, serve443, serve80>>
       ELSE /\ exited' = FALSE
            /\ mainPc' = "serving"
            /\ IF useHTTPS
               THEN serve443' = "proxy" /\ serve80' = serve80
               ELSE serve80' = "proxy" /\ serve443' = serve443
    /\ UNCHANGED <<cfgVars, knobVars, resp, err, ln443, l80, bootVars, reqVars>>

\* line 119: http.Serve returns (listener error), log.Fatal
MainServeReturn ==
    /\ ~exited
    /\ mainPc = "serving"
    /\ exited' = TRUE
    /\ UNCHANGED <<cfgVars, knobVars, resp, mainVars, l80, serve80, bootVars, reqVars>>

----------------------------------------------------------------------------
(* the readiness goroutine of TLS mode *)

\* PollStatus that never advances i when the state is not "Running"
PollStatus_NoIncrement ==
    /\ ~exited
    /\ bootPc = "poll"
    /\ i < MaxPolls
    /\ polls <= MaxPolls
    /\ polls' = polls + 1
    /\ \/ /\ exited' = TRUE
          /\ UNCHANGED <<bootPc, i, st, firstRunning>>
       \/ \E s \in BackendStates :
            /\ st' = s
            /\ exited' = FALSE
            /\ i' = i
            /\ IF s = "Running"
               THEN bootPc' = "listen80" /\ firstRunning' = polls + 1
               ELSE bootPc' = "poll" /\ firstRunning' = firstRunning
    /\ UNCHANGED <<cfgVars, knobVars, resp, mainVars, l80, serve80, name,
                   reqVars>>

\* PollStatus without the break on "Running": the loop always runs to i = 60
PollStatus_NoBreak ==
    /\ ~exited
    /\ bootPc = "poll"
    /\ i < MaxPolls
    /\ polls' = polls + 1
    /\ \/ /\ exited' = TRUE
          /\ UNCHANGED <<bootPc, i, st, firstRunning>>
       \/ \E s \in BackendStates :
            /\ st' = s
            /\ exited' = FALSE
            /\ i' = i + 1
            /\ bootPc' = IF i + 1 < MaxPolls THEN "poll" ELSE "listen80"
            /\ firstRunning' = IF s = "Running" /\ firstRunning = 0
                               THEN polls + 1 ELSE firstRunning
    /\ UNCHANGED <<cfgVars, knobVars, resp, mainVars, l80, serve80, name, reqVars>>

\* lines 86-96: one iteration of the loop: tailscale.Status, fatal on error,
\* break on "Running", otherwise sleep and i++ (the loop ends at i = 60)
PollStatus ==
    /\ ~exited
    /\ bootPc = "poll"
    /\ i < MaxPolls
    /\ polls' = polls + 1
    /\ \/ /\ exited' = TRUE
          /\ UNCHANGED <<bootPc, i, st, firstRunning>>
       \/ \E s \in BackendStates :
            /\ st' = s
            /\ exited' = FALSE
            /\ IF s = "Running"
               THEN /\ bootPc' = "listen80"
                    /\ i' = i
                    /\ firstRunning' = polls + 1
               ELSE /\ i' = i + 1
                    /\ bootPc' = IF i + 1 < MaxPolls THEN "poll" ELSE "listen80"
                    /\ firstRunning' = firstRunning
    /\ UNCHANGED <<cfgVars, knobVars, resp, mainVars, l80, serve80, name, reqVars>>

\* lines 98-101: ts.Listen("tcp", ":80"), fatal on error
BootListen80 ==
    /\ ~exited
    /\ bootPc = "listen80"
    /\ \E ok \in BOOLEAN :
         IF ok
         THEN l80' = "open" /\ bootPc' = "expand" /\ exited' = FALSE
         ELSE l80' = l80 /\ bootPc' = bootPc /\ exited' = TRUE
    /\ UNCHANGED <<cfgVars, knobVars, resp, mainVars, serve80, i, st, polls, firstRunning,
                   name, reqVars>>

\* lines 102-105: tailscale.ExpandSNIName, fatal when the name is unknown
BootExpandName ==
    /\ ~exited
    /\ bootPc = "expand"
    /\ \E ok \in BOOLEAN :
         IF ok
         THEN name' = ExpandSNIName(hostname) /\ bootPc' = "serve80"
              /\ exited' = FALSE
         ELSE name' = name /\ bootPc' = bootPc /\ exited' = TRUE
    /\ UNCHANGED <<cfgVars, knobVars, resp, mainVars, l80, serve80, i, st, polls,
                   firstRunning, reqVars>>

\* line 106: http.Serve(l80, redirect handler)
BootServe80 ==
    /\ ~exited
    /\ bootPc = "serve80"
    /\ serve80' = "redirect"
    /\ bootPc' = "serving"
    /\ UNCHANGED <<cfgVars, knobVars, resp, mainVars, exited, l80, i, st, polls,
                   firstRunning, name, reqVars>>

\* lines 106-110: http.Serve returns an error, log.Fatal
BootServeReturn ==
    /\ ~exited
    /\ bootPc = "serving"
    /\ exited' = TRUE
    /\ UNCHANGED <<cfgVars, knobVars, resp, mainVars, l80, serve80, bootVars, reqVars>>

\* lines 106-108: the redirect handler answers a request on port 80
ServeRedirect ==
    /\ ~exited
    /\ bootPc = "serving"
    /\ serve80 = "redirect"
    /\ \E p \in ClientPaths : resp' = redirectHandler(p, name)
    /\ UNCHANGED <<cfgVars, knobVars, mainVars, exited, l80, serve80,
                   bootVars, reqVars>>

----------------------------------------------------------------------------
(* one proxied request: accept, Director (generic, then modifyRequest),    *)
(* transport                                                               *)

ProxyServing == ~exited /\ mainPc = "serving"

\* the proxy accepts a request from a client and clones it as outreq
Accept ==
    /\ ProxyServing
    /\ reqPc = "idle"
    /\ \E p \in ClientPaths, h \in ClientHeaders :
         /\ in' = [Path |-> p, Header |-> h]
         /\ out' = [Path |-> p, Header |-> h]
    /\ who' = NoWhoIs
    /\ whoisCalls' = 0
    /\ userErr' = "none"
    /\ reqPc' = "accepted"
    /\ UNCHANGED <<cfgVars, knobVars, resp, mainVars, exited, l80, serve80,
                   bootVars, prevWho>>

\* lines 129-136: what modifyRequest does to a login-path request whose
\* peer's WhoIs response is w
injectUser(req, w) ==
    LET r == getTailscaleUser(w)
    IN IF r.err # "nil"
       THEN req
       ELSE [req EXCEPT !.Header =
               HeaderSet(HeaderSet(@, UserHeader, r.user.LoginName),
                         NameHeader, r.user.DisplayName)]

\* the Director running modifyRequest before the generic director
Director_InjectFirst ==
    /\ ProxyServing
    /\ reqPc = "accepted"
    /\ IF ~IsLoginPath(out.Path)
       THEN /\ out' = originalDirector(ParseBackend(backendAddr), out)
            /\ UNCHANGED <<who, whoisCalls, userErr>>
       ELSE \E w \in WhoIsResults :
              /\ who' = w
              /\ whoisCalls' = whoisCalls + 1
              /\ userErr' = getTailscaleUser(w).err
              /\ out' = originalDirector(ParseBackend(backendAddr),
                                         injectUser(out, w))
    /\ reqPc' = "injected"
    /\ UNCHANGED <<cfgVars, knobVars, resp, mainVars, exited, l80, serve80,
                   bootVars, in, prevWho>>

\* line 73: originalDirector(req)
Director ==
    /\ ProxyServing
    /\ reqPc = "accepted"
    /\ out' = originalDirector(ParseBackend(backendAddr), out)
    /\ reqPc' = "directed"
    /\ UNCHANGED <<cfgVars, knobVars, resp, mainVars, exited, l80, serve80,
                   bootVars, in, who, whoisCalls, userErr, prevWho>>

\* modifyRequest reusing the last successful WhoIs response instead of asking
modifyRequest_Cached ==
    /\ ProxyServing
    /\ reqPc = "directed"
    /\ IF ~IsLoginPath(out.Path)
       THEN UNCHANGED <<out, who, whoisCalls, userErr>>
       ELSE IF getTailscaleUser(prevWho).err = "nil"
       THEN /\ out' = injectUser(out, prevWho)
            /\ userErr' = "nil"
            /\ UNCHANGED <<who, whoisCalls>>
       ELSE \E w \in WhoIsResults :
              /\ who' = w
              /\ whoisCalls' = whoisCalls + 1
              /\ userErr' = getTailscaleUser(w).err
              /\ out' = injectUser(out, w)
    /\ reqPc' = "injected"
    /\ UNCHANGED <<cfgVars, knobVars, resp, mainVars, exited, l80, serve80,
                   bootVars, in, prevWho>>

\* lines 122-137: modifyRequest(req)
modifyRequest ==
    /\ ProxyServing
    /\ reqPc = "directed"
    /\ IF ~IsLoginPath(out.Path)
       THEN UNCHANGED <<out, who, whoisCalls, userErr>>
       ELSE \E w \in WhoIsResults :
              /\ who' = w
              /\ whoisCalls' = whoisCalls + 1
              /\ userErr' = getTailscaleUser(w).err
              /\ out' = injectUser(out, w)
    /\ reqPc' = "injected"
    /\ UNCHANGED <<cfgVars, knobVars, resp, mainVars, exited, l80, serve80,
                   bootVars, in, prevWho>>

\* the reverse proxy hands the rewritten request to the transport
Transport ==
    /\ ProxyServing
    /\ reqPc = "injected"
    /\ reqPc' = "sent"
    /\ UNCHANGED <<cfgVars, knobVars, resp, mainVars, exited, l80, serve80,
                   bootVars, in, out, who, whoisCalls, userErr, prevWho>>

\* the response is streamed back and the worker is free for the next request
Respond ==
    /\ ProxyServing
    /\ reqPc = "sent"
    /\ reqPc' = "idle"
    /\ prevWho' = IF whoisCalls > 0 THEN who ELSE prevWho
    /\ in' = NoRequest
    /\ out' = NoRequest
    /\ who' = NoWhoIs
    /\ whoisCalls' = 0
    /\ userErr' = "none"
    /\ UNCHANGED <<cfgVars, knobVars, resp, mainVars, exited, l80, serve80,
                   bootVars>>

----------------------------------------------------------------------------
(* logknob: the LogKnob of src/unnamed/part_000 *)

\* names of environment knobs and of capabilities ("" is none)
EnvNames == {"", "TS_DEBUG_X"}
CapNames == {"", "debug-x"}

\* most capabilities in the SelfCapabilities of a net map
MaxCaps == 2

\* nm.SelfCapabilities()
SelfCapabilities == SeqsUpTo({"debug-x", "other"}, MaxCaps)

\* NewLogKnob(env, cap): panics without an env name and a capability; the
\* env function reads the registered envknob, or is constantly false
NewLogKnob ==
    /\ knobPc = "none"
    /\ \E e \in EnvNames, c \in CapNames :
         IF e = "" /\ c = ""
         THEN /\ knobPc' = "panicked"
              /\ UNCHANGED <<capName, env>>
         ELSE /\ knobPc' = "made"
              /\ capName' = c
              /\ env' \in (IF e # "" THEN BOOLEAN ELSE {FALSE})
    /\ UNCHANGED <<cfgVars, mainVars, exited, l80, serve80, bootVars, reqVars,
                   resp, cap, manual, doPc, didLog, nm>>

\* Set(v) storing v in both atomic flags
Set_BothFlags ==
    /\ knobPc = "made"
    /\ \E v \in BOOLEAN : manual' = v /\ cap' = v
    /\ UNCHANGED <<cfgVars, mainVars, exited, l80, serve80, bootVars, reqVars,
                   resp, knobPc, capName, env, doPc, didLog, nm>>

\* Set(v): l.manual.Store(v)
Set ==
    /\ knobPc = "made"
    /\ \E v \in BOOLEAN : manual' = v
    /\ UNCHANGED <<cfgVars, mainVars, exited, l80, serve80, bootVars, reqVars,
                   resp, knobPc, capName, cap, env, doPc, didLog, nm>>

\* UpdateFromNetMap(nm): nothing without a capability name; otherwise cap is
\* stored true when the self capabilities contain capName, false otherwise
UpdateFromNetMap ==
    /\ knobPc = "made"
    /\ \E caps \in SelfCapabilities :
         /\ nm' = caps
         /\ IF capName = ""
            THEN cap' = cap
            ELSE cap' = (\E k \in 1..Len(caps) : caps[k] = capName)
    /\ UNCHANGED <<cfgVars, mainVars, exited, l80, serve80, bootVars, reqVars,
                   resp, knobPc, capName, env, manual, doPc, didLog>>

\* Do, shouldLog: l.manual.Load(); a true value decides the call
DoLoadManual ==
    /\ knobPc = "made"
    /\ doPc = "idle"
    /\ IF manual
       THEN doPc' = "done" /\ didLog' = TRUE
       ELSE doPc' = "env" /\ didLog' = didLog
    /\ UNCHANGED <<cfgVars, mainVars, exited, l80, serve80, bootVars, reqVars,
                   resp, knobPc, capName, cap, env, manual, nm>>

\* Do, shouldLog: l.env(); a true value decides the call
DoEnv ==
    /\ knobPc = "made"
    /\ doPc = "env"
    /\ IF env
       THEN doPc' = "done" /\ didLog' = TRUE
       ELSE doPc' = "cap" /\ didLog' = didLog
    /\ UNCHANGED <<cfgVars, mainVars, exited, l80, serve80, bootVars, reqVars,
                   resp, knobPc, capName, cap, env, manual, nm>>

\* Do, shouldLog: l.cap.Load() decides the call
DoLoadCap ==
    /\ knobPc = "made"
    /\ doPc = "cap"
    /\ doPc' = "done"
    /\ didLog' = cap
    /\ UNCHANGED <<cfgVars, mainVars, exited, l80, serve80, bootVars, reqVars,
                   resp, knobPc, capName, cap, env, manual, nm>>

\* Do returns to its caller
DoReturn ==
    /\ knobPc = "made"
    /\ doPc = "done"
    /\ doPc' = "idle"
    /\ UNCHANGED <<cfgVars, mainVars, exited, l80, serve80, bootVars, reqVars,
                   resp, knobPc, capName, cap, env, manual, didLog, nm>>

KnobNext ==
    \/ NewLogKnob
    \/ Set
    \/ UpdateFromNetMap
    \/ DoLoadManual
    \/ DoEnv
    \/ DoLoadCap
    \/ DoReturn

----------------------------------------------------------------------------
MainNext == MainValidate \/ MainListen \/ MainServe \/ MainServeReturn

BootNext ==
    \/ PollStatus
    \/ BootListen80
    \/ BootExpandName
    \/ BootServe80
    \/ BootServeReturn
    \/ ServeRedirect

RequestNext == Accept \/ Director \/ modifyRequest \/ Transport \/ Respond

Next ==
    \/ MainValidate
    \/ MainListen
    \/ MainServe
    \/ MainServeReturn
    \/ PollStatus
    \/ BootListen80
    \/ BootExpandName
    \/ BootServe80
    \/ BootServeReturn
    \/ ServeRedirect
    \/ Accept
    \/ Director
    \/ modifyRequest
    \/ Transport
    \/ Respond
    \/ NewLogKnob
    \/ Set
    \/ UpdateFromNetMap
    \/ DoLoadManual
    \/ DoEnv
    \/ DoLoadCap
    \/ DoReturn

\* the whole program, with the log knob used beside it
Spec == Init /\ [][Next]_vars

\* startup and port-80 redirects: no client sends a request to the proxy
NextBoot ==
    \/ MainValidate
    \/ MainListen
    \/ MainServe
    \/ MainServeReturn
    \/ PollStatus
    \/ BootListen80
    \/ BootExpandName
    \/ BootServe80
    \/ BootServeReturn
    \/ ServeRedirect

SpecBoot == Init /\ [][NextBoot]_vars

\* request handling in both modes: the readiness goroutine is not scheduled
NextProxy ==
    \/ MainValidate
    \/ MainListen
    \/ MainServe
    \/ MainServeReturn
    \/ Accept
    \/ Director
    \/ modifyRequest
    \/ Transport
    \/ Respond

SpecProxy == Init /\ [][NextProxy]_vars

\* startup with a fair scheduler for the readiness goroutine
SpecBootFair ==
    /\ Init
    /\ [][NextBoot]_vars
    /\ WF_vars(PollStatus)
    /\ WF_vars(BootListen80)
    /\ WF_vars(BootExpandName)
    /\ WF_vars(BootServe80)

\* the log knob alone, under every interleaving of its callers
NextKnob ==
    \/ NewLogKnob
    \/ Set
    \/ UpdateFromNetMap
    \/ DoLoadManual
    \/ DoEnv
    \/ DoLoadCap
    \/ DoReturn

SpecKnob == Init /\ [][NextKnob]_vars

----------------------------------------------------------------------------
TypeOK ==
    /\ hostname \in Hostnames
    /\ backendAddr \in BackendAddrs
    /\ useHTTPS \in BOOLEAN
    /\ mainPc \in {"flags", "listen", "checkErr", "serving"}
    /\ err \in BOOLEAN
    /\ exited \in BOOLEAN
    /\ ln443 \in {"closed", "open"}
    /\ l80 \in {"closed", "open"}
    /\ serve443 \in {"none", "proxy"}
    /\ serve80 \in {"none", "proxy", "redirect"}
    /\ bootPc \in {"none", "poll", "listen80", "expand", "serve80", "serving"}
    /\ i \in 0..MaxPolls
    /\ st \in BackendStates
    /\ polls \in 0..MaxPolls
    /\ firstRunning \in 0..MaxPolls
    /\ reqPc \in {"idle", "accepted", "directed", "injected", "sent"}
    /\ whoisCalls \in 0..1
    /\ userErr \in {"none", "nil", "failed to identify remote host",
                    "tagged nodes are not users",
                    "failed to identify remote user"}
    /\ prevWho \in WhoIsResults \cup {NoWhoIs}
    /\ resp.Status \in {0, StatusMovedPermanently}
    /\ knobPc \in {"none", "made", "panicked"}
    /\ capName \in CapNames
    /\ cap \in BOOLEAN
    /\ env \in BOOLEAN
    /\ manual \in BOOLEAN
    /\ doPc \in {"idle", "env", "cap", "done"}
    /\ didLog \in BOOLEAN
    /\ nm \in SelfCapabilities

----------------------------------------------------------------------------
(* Properties of the request path (checked under SpecProxy) *)

\* the request has left modifyRequest
Injected == reqPc \in {"injected", "sent"}

\* the WhoIs response of this request is one that identifies no user
ResolutionFailed ==
    \/ who.err
    \/ Len(who.Tags) # 0
    \/ ~who.UserProfile.present
    \/ who.UserProfile.LoginName = ""

\* C1: a request whose path, as modifyRequest sees it, is not "/login" leaves
\* modifyRequest with its complete header set unchanged and without any call
\* of the identity resolver.
C1_NonLoginUntouched ==
    [][(reqPc = "directed" /\ reqPc' = "injected" /\ out.Path # LoginPath)
         => /\ out'.Header = out.Header
            /\ out'.Path = out.Path
            /\ whoisCalls' = 0
            /\ who' = who]_vars

C1_Witness ==
    /\ reqPc = "injected"
    /\ out.Path = <<"/", "dashboard">>
    /\ Len(in.Header[UserHeader]) = 2
    /\ in.Header[NameHeader] # <<>>
    /\ out.Header[UserHeader] = in.Header[UserHeader]

\* C2: on the login path, when the peer resolves to an untagged identity with
\* a non-empty login name, X-Webauth-User is exactly the login name and
\* X-Webauth-Name exactly the display name after injection, whatever the
\* client sent for them.
C2_LoginHeadersOverwritten ==
    (/\ Injected
     /\ out.Path = LoginPath
     /\ whoisCalls = 1
     /\ ~who.err
     /\ Len(who.Tags) = 0
     /\ who.UserProfile.present
     /\ who.UserProfile.LoginName # "")
    => /\ out.Header[UserHeader] = <<who.UserProfile.LoginName>>
       /\ out.Header[NameHeader] = <<who.UserProfile.DisplayName>>

C2_Witness ==
    /\ reqPc = "injected"
    /\ out.Path = LoginPath
    /\ whoisCalls = 1
    /\ ~ResolutionFailed
    /\ in.Header[UserHeader] = <<"mallory", "a@b.com">>
    /\ in.Header[NameHeader] = <<"mallory">>
    /\ out.Header[UserHeader] = <<"bob@b.com">>
    /\ out.Header[NameHeader] = <<"Bob">>

\* C3: on the login path, when resolution fails (WhoIs error, tags, missing
\* profile or empty login name), the two trusted headers keep the values they
\* had before modifyRequest, and the request can still be handed to the
\* transport.
C3_FailureLeavesHeaders ==
    (/\ Injected
     /\ out.Path = LoginPath
     /\ whoisCalls = 1
     /\ ResolutionFailed)
    => /\ out.Header[UserHeader] = in.Header[UserHeader]
       /\ out.Header[NameHeader] = in.Header[NameHeader]
       /\ (reqPc = "injected" /\ ~exited) => ENABLED Transport

C3_Witness ==
    /\ reqPc = "sent"
    /\ out.Path = LoginPath
    /\ whoisCalls = 1
    /\ ~who.err
    /\ Len(who.Tags) = 0
    /\ who.UserProfile.present
    /\ who.UserProfile.LoginName = ""
    /\ in.Header[UserHeader] = <<"mallory">>
    /\ out.Header[UserHeader] = <<"mallory">>
    /\ out.Header[NameHeader] = <<>>

\* C6: for a request whose peer carries one or more tags, the proxy writes
\* neither trusted header, also when the peer has a profile with a login name.
C6_TaggedNeverInjected ==
    (/\ Injected
     /\ whoisCalls = 1
     /\ ~who.err
     /\ Len(who.Tags) # 0)
    => \A h \in TrustedHeaders : out.Header[h] = in.Header[h]

C6_Witness ==
    /\ reqPc = "sent"
    /\ whoisCalls = 1
    /\ Len(who.Tags) # 0
    /\ who.UserProfile.present
    /\ who.UserProfile.LoginName = "a@b.com"
    /\ out.Header[UserHeader] = <<>>
    /\ out.Header[NameHeader] = <<>>

\* C7 (as claimed): a request forwarded to the backend with a path other than
\* "/login" carries neither trusted header, whatever the client sent.
C7_Claim ==
    (reqPc = "sent" /\ out.Path # LoginPath)
    => \A h \in TrustedHeaders : out.Header[h] = <<>>

\* what the resolution result alone determines for the trusted headers
TrustedFor(w, h) ==
    IF w.err \/ Len(w.Tags) # 0 \/ ~w.UserProfile.present
       \/ w.UserProfile.LoginName = ""
    THEN <<>>
    ELSE IF h = UserHeader THEN <<w.UserProfile.LoginName>>
         ELSE <<w.UserProfile.DisplayName>>

\* C8 (as claimed): the trusted headers of a forwarded login request are a
\* function of the resolution result only; without a successful resolution
\* no trusted header reaches the backend.
C8_Claim ==
    (reqPc = "sent" /\ out.Path = LoginPath /\ whoisCalls = 1)
    => \A h \in TrustedHeaders : out.Header[h] = TrustedFor(who, h)

----------------------------------------------------------------------------
(* Properties of startup (checked under SpecBoot) *)

\* C4 (as claimed): in TLS mode, when none of the 60 polls reports "Running",
\* the process exits and the port-80 listener is never opened.
C4_Claim ==
    (useHTTPS /\ polls = MaxPolls /\ firstRunning = 0)
    => /\ l80 = "closed"
       /\ serve80 = "none"
       /\ bootPc # "listen80" => exited

\* C5: in TLS mode, when the first "Running" report is the k-th poll, no poll
\* follows the k-th, and the port-80 listener is open only in states where
\* exactly k polls have been made.
C5_OpensAfterKPolls ==
    /\ firstRunning # 0 => (polls = firstRunning /\ st = "Running")
    /\ (useHTTPS /\ l80 = "open" /\ st = "Running") => polls = firstRunning
    /\ (useHTTPS /\ l80 = "open") => (st = "Running" \/ polls = MaxPolls)

C5_Witness ==
    /\ useHTTPS
    /\ l80 = "open"
    /\ serve80 = "redirect"
    /\ firstRunning = 3
    /\ polls = 3

\* C9: in TLS mode no step by which main opens and serves :443 waits for the
\* overlay status or for the readiness goroutine: each is enabled whenever
\* main has reached it and the process is alive.
C9_SecurePortNotGated ==
    (useHTTPS /\ ~exited)
    => /\ mainPc = "listen" => ENABLED MainListen
       /\ mainPc = "checkErr" => ENABLED MainServe
       /\ (mainPc = "serving" /\ ~err) => (ln443 = "open" /\ serve443 = "proxy")

C9_Witness ==
    /\ useHTTPS
    /\ ~exited
    /\ serve443 = "proxy"
    /\ ln443 = "open"
    /\ l80 = "closed"
    /\ bootPc = "poll"
    /\ polls = 2
    /\ st # "Running"

\* C10: with TLS disabled only the port-80 listener is ever opened and it
\* serves the proxy; :443 is never opened, no status poll is made, the
\* readiness goroutine is never started and no redirect handler is installed.
C10_PlaintextOnly ==
    ~useHTTPS
    => /\ ln443 = "closed"
       /\ serve443 = "none"
       /\ polls = 0
       /\ bootPc = "none"
       /\ serve80 # "redirect"
       /\ name = <<>>
       /\ mainPc = "serving" => (l80 = "open" /\ serve80 = "proxy")
       /\ serve80 = "proxy" => l80 = "open"

C10_Witness ==
    /\ ~useHTTPS
    /\ ~exited
    /\ mainPc = "serving"
    /\ l80 = "open"
    /\ serve80 = "proxy"

----------------------------------------------------------------------------
(* Configuration errors (checked under SpecBoot) *)

\* the configuration errors the claim names
BadConfig ==
    \/ hostname = <<>>
    \/ \E k \in 1..Len(hostname) : hostname[k] = "."
    \/ backendAddr = <<>>

\* C11: with an empty hostname, a hostname containing "." or an empty backend
\* address, main never gets past its flag checks: no listener is opened, no
\* status poll is made, no handler is installed and no request is handled;
\* the only step main takes is the fatal exit.
C11_ConfigErrorsFatal ==
    BadConfig
    => /\ mainPc = "flags"
       /\ ln443 = "closed"
       /\ l80 = "closed"
       /\ serve443 = "none"
       /\ serve80 = "none"
       /\ bootPc = "none"
       /\ polls = 0
       /\ reqPc = "idle"
       /\ resp = NoResponse
       /\ ~exited => ENABLED MainValidate

C11_Witness ==
    /\ exited
    /\ mainPc = "flags"
    /\ hostname = <<"svc", ".", "net">>
    /\ backendAddr = <<"h:3000">>
    /\ useHTTPS

----------------------------------------------------------------------------
(* Identity resolution (checked under SpecProxy) *)

\* C12: getTailscaleUser classifies a WhoIs outcome in this order: lookup
\* failure when the call errors; else tagged principal when the peer has
\* tags; else unidentified user when the profile is absent or its login name
\* empty; else success. Success is returned only for an untagged peer with a
\* non-empty login name.
C12_ClassificationOrder ==
    (Injected /\ whoisCalls = 1)
    => /\ who.err => userErr = "failed to identify remote host"
       /\ (~who.err /\ Len(who.Tags) # 0)
            => userErr = "tagged nodes are not users"
       /\ (~who.err /\ Len(who.Tags) = 0
           /\ (~who.UserProfile.present \/ who.UserProfile.LoginName = ""))
            => userErr = "failed to identify remote user"
       /\ (~who.err /\ Len(who.Tags) = 0 /\ who.UserProfile.present
           /\ who.UserProfile.LoginName # "")
            => userErr = "nil"
       /\ userErr = "nil"
            => (Len(who.Tags) = 0 /\ who.UserProfile.LoginName # "")

C12_Witness ==
    /\ reqPc = "injected"
    /\ whoisCalls = 1
    /\ ~who.err
    /\ Len(who.Tags) # 0
    /\ ~who.UserProfile.present
    /\ userErr = "tagged nodes are not users"

\* C15: injection is idempotent: applying the injection again to an injected
\* login request, with the same resolved identity, changes nothing; each
\* trusted header keeps its single value.
C15_InjectionIdempotent ==
    (/\ Injected
     /\ out.Path = LoginPath
     /\ whoisCalls = 1
     /\ ~ResolutionFailed)
    => /\ injectUser(out, who) = out
       /\ injectUser(injectUser(in, who), who).Header[UserHeader]
            = out.Header[UserHeader]
       /\ injectUser(injectUser(in, who), who).Header[NameHeader]
            = out.Header[NameHeader]
       /\ \A h \in TrustedHeaders : Len(out.Header[h]) = 1

C15_Witness ==
    /\ reqPc = "injected"
    /\ out.Path = LoginPath
    /\ whoisCalls = 1
    /\ who.UserProfile.LoginName = "a@b.com"
    /\ Len(who.Tags) = 0
    /\ in.Header[UserHeader] = <<"a@b.com", "a@b.com">>
    /\ in.Header[NameHeader] = <<"mallory", "mallory">>
    /\ out.Header[UserHeader] = <<"a@b.com">>
    /\ out.Header[NameHeader] = <<"Ann">>

\* the order of the steps of one proxied request
StepOrder ==
    { <<"idle", "accepted">>, <<"accepted", "directed">>,
      <<"directed", "injected">>, <<"injected", "sent">>,
      <<"sent", "idle">> }

C18_FreshResolution ==
    /\ whoisCalls <= 1
    /\ (Injected /\ out.Path = LoginPath)
       => /\ whoisCalls = 1
          /\ out.Header[UserHeader] =
               IF ResolutionFailed THEN in.Header[UserHeader]
               ELSE <<who.UserProfile.LoginName>>
          /\ out.Header[NameHeader] =
               IF ResolutionFailed THEN in.Header[NameHeader]
               ELSE <<who.UserProfile.DisplayName>>

C18_Witness ==
    /\ reqPc = "sent"
    /\ out.Path = LoginPath
    /\ whoisCalls = 1
    /\ prevWho.UserProfile.LoginName = "a@b.com"
    /\ Len(prevWho.Tags) = 0
    /\ who.UserProfile.LoginName = "bob@b.com"
    /\ Len(who.Tags) = 0
    /\ in.Header[UserHeader] = <<>>
    /\ out.Header[UserHeader] = <<"bob@b.com">>
    /\ out.Header[NameHeader] = <<"Bob">>

----------------------------------------------------------------------------
(* Port-80 redirects and bootstrap order (checked under SpecBoot) *)

\* C13 (as claimed): every response of the redirect handler is a 301 to
\* https://<secure name><request path>.
C13_Claim ==
    resp # NoResponse
    => /\ resp.Status = 301
       /\ resp.Location =
            <<"https://">> \o hostname
              \o <<".", "tailnet", ".", "ts", ".", "net">> \o resp.Path

\* C14 (as claimed): the port-80 listener is opened only after readiness was
\* reached and the secure name was resolved.
C14_Claim ==
    (useHTTPS /\ l80 = "open")
    => /\ st = "Running"
       /\ name # <<>>

\* C19: the readiness poll terminates: at most 60 status queries are made,
\* polling goes on only while no "Running" was reported, an exit during the
\* loop leaves port 80 closed, and with a fair scheduler the goroutine ends up
\* serving redirects on port 80 or the process exits.
C19_PollTerminates ==
    /\ [](polls <= MaxPolls)
    /\ []((bootPc = "poll" /\ ~exited)
            => (polls < MaxPolls /\ firstRunning = 0 /\ st # "Running"))
    /\ []((bootPc \notin {"none", "poll"})
            => (polls = firstRunning \/ (firstRunning = 0 /\ polls = MaxPolls)))
    /\ []((exited /\ bootPc = "poll") => (l80 = "closed" /\ serve80 = "none"))
    /\ (bootPc = "poll") ~> (serve80 = "redirect" \/ exited)

C19_Witness ==
    /\ ~exited
    /\ serve80 = "redirect"
    /\ polls = MaxPolls
    /\ firstRunning = 0
    /\ resp # NoResponse

\* C20 (as claimed): in TLS mode, when opening :443 fails, the readiness
\* goroutine has made no status poll, has not opened port 80 and has served no
\* redirect.
C20_Claim ==
    (useHTTPS /\ err)
    => /\ polls = 0
       /\ l80 = "closed"
       /\ serve80 = "none"
       /\ resp = NoResponse

----------------------------------------------------------------------------
(* The log knob (checked under SpecKnob) *)

\* a Do call decides in this step
DoDecides == doPc # "done" /\ doPc' = "done"

\* C17: Set changes only the manual source and UpdateFromNetMap only the
\* capability source, which is true exactly when the last net map carries the
\* knob's capability name and never changes without one; a Do call logs only
\* when one of the three sources is true, and skips the log only when the
\* environment and the capability source are both false, whatever Set did.
C17_LogKnobSources ==
    /\ [](capName = "" => ~cap)
    /\ [](capName # "" => (cap <=> \E k \in 1..Len(nm) : nm[k] = capName))
    /\ [][/\ manual' # manual => (cap' = cap /\ env' = env)
          /\ cap' # cap => (manual' = manual /\ env' = env)
          /\ DoDecides => /\ didLog' => (manual \/ env \/ cap)
                          /\ ~didLog' => (~env /\ ~cap)
                          /\ UNCHANGED <<manual, env, cap>>]_vars

C17_Witness ==
    /\ knobPc = "made"
    /\ doPc = "done"
    /\ didLog
    /\ ~manual
    /\ ~env
    /\ cap
    /\ nm = <<"other", "debug-x">>

====
